---- MODULE Spec2Model ----
(***************************************************************************)
(* A model of tune_autotvm.py: the driver that tunes the kernels and the   *)
(* graph layout of a few named networks with AutoTVM.                      *)
(*                                                                         *)
(* The script is sequential.  Its state is kept in one record, `run`:      *)
(* the parsed arguments, the locals of the __main__ block and of the       *)
(* function being executed, the position in the code (pc), the file        *)
(* system under the log directory, and the trace of everything the script  *)
(* does to the outside (file system calls, library calls, log writes).     *)
(* fs0 keeps the file system the execution started with.                   *)
(* `twin` is a second execution of the same script, started in the same    *)
(* environment with the same command line except for --thread, and fed     *)
(* the same answers by the library.                                        *)
(*                                                                         *)
(* Paths are sequences of tokens; "/" is the separator token.              *)
(***************************************************************************)
EXTENDS Naturals, Sequences, FiniteSets, TLC

VARIABLES run, twin

vars == <<run, twin>>

None == "None"

(* The largest number of tasks extract_from_program returns in the model. *)
MaxTasks == 2

----------------------------------------------------------------------------
(* Helpers: Python built-ins and os.path                                   *)

Reverse(seq) == [k \in 1..Len(seq) |-> seq[Len(seq) + 1 - k]]

Min(a, b) == IF a <= b THEN a ELSE b

Sep == "/"

(* The file a path names: runs of separators count as one, a trailing     *)
(* separator is dropped.                                                   *)
RECURSIVE CanonPath(_)
CanonPath(p) ==
  IF p = <<>> THEN <<>>
  ELSE LET h == CanonPath(SubSeq(p, 1, Len(p) - 1))
           t == p[Len(p)]
       IN  IF t = Sep
             THEN IF Len(p) = 1 THEN <<Sep>> ELSE h
             ELSE IF Len(p) > 1 /\ p[Len(p) - 1] = Sep /\ h # <<Sep>>
                    THEN h \o <<Sep, t>>
                    ELSE h \o <<t>>

(* os.path.join(a, b) for a one-component b *)
path_join(a, b) ==
  IF b # <<>> /\ b[1] = Sep THEN b
  ELSE IF a = <<>> \/ a[Len(a)] = Sep THEN a \o b
  ELSE a \o <<Sep>> \o b

(* path + suffix: string concatenation onto the last component *)
path_plus(p, suffix) == [p EXCEPT ![Len(p)] = @ \o suffix]

path_exists(fs, p) ==
  \/ CanonPath(p) \in fs.dirs
  \/ CanonPath(p) \in DOMAIN fs.files

(* os.remove *)
fs_remove(fs, p) ==
  [fs EXCEPT !.files = [q \in (DOMAIN fs.files) \ {CanonPath(p)} |-> fs.files[q]]]

(* A log record appended to a file opened in append mode (created if absent) *)
fs_append(fs, p, rec) ==
  LET q == CanonPath(p)
      old == IF q \in DOMAIN fs.files THEN fs.files[q] ELSE <<>>
  IN  [fs EXCEPT !.files = (q :> Append(old, rec)) @@ fs.files]

(* A file opened for writing: earlier content is replaced *)
fs_write(fs, p, rec) ==
  [fs EXCEPT !.files = (CanonPath(p) :> <<rec>>) @@ fs.files]

fs_read(fs, p) ==
  IF CanonPath(p) \in DOMAIN fs.files THEN fs.files[CanonPath(p)] ELSE <<>>

----------------------------------------------------------------------------
(* Inputs                                                                  *)

AllNetworks == <<"resnet-50", "mobilenet_v2", "bert">>

NetworkChoices == {"resnet-50", "mobilenet_v2", "bert", "all"}

DefaultTarget == "llvm -model=e5-2670 -mcpu=core-avx2"

(* tvm.target.Target(str).keys for the target strings of the model *)
TargetKeys(str) ==
  CASE str = DefaultTarget -> {"cpu"}
    [] str = "cuda" -> {"cuda", "gpu"}
    [] str = "opencl" -> {"opencl", "gpu"}

TargetStrings == {DefaultTarget, "cuda", "opencl"}

LogDirs == {<<>>, <<"tuning_logs", Sep>>, <<"logs">>}

(* --thread: its default (line 138), and the values of the second execution *)
DefaultThread == 1
OtherThreads == {4}

InputNames == {"data", "0"}

(* The configuration-space size of a task: below and above the default    *)
(* trial budget.                                                           *)
len_config_space(tsk) == IF tsk % 2 = 1 THEN 8 ELSE 4096

Tasks(n) == [k \in 1..n |-> k]

(* What the library answers at one step: whether it raises, and (for task *)
(* extraction) how many tasks it finds.                                    *)
NoChoice == [fail |-> FALSE, n |-> 0]
MayFail == {[fail |-> f, n |-> 0] : f \in BOOLEAN}
MayFailN == {[fail |-> f, n |-> k] : f \in BOOLEAN, k \in 0..MaxTasks}

(* A record left in a log file by an earlier execution of the script *)
StaleRec == [run |-> 0, task |-> 0, trials |-> 1]

----------------------------------------------------------------------------
(* The state of one execution                                              *)

Event(op, r, arg) == [op |-> op, run |-> r, arg |-> arg]

Emit(s, op, arg) ==
  Append(s.trace, Event(op, IF s.pc \in {"parse", "mkdir", "target", "loop"}
                             THEN 0 ELSE s.ni + 1, arg))

(* An exception nobody catches: the interpreter unwinds and exits. *)
Raise(s, exc, op, arg) ==
  [s EXCEPT !.pc = "crashed", !.err = exc,
            !.trace = Emit(s, op, [arg EXCEPT !.raised = TRUE])]

(* The state after argparse has read the command line (line 142) *)
Start(args, fs) ==
  [pc |-> "parse", err |-> None, args |-> args, fs |-> fs, fs0 |-> fs,
   trace |-> <<>>,
   networks |-> <<>>, ni |-> 0, target |-> None, target_name |-> None,
   caller |-> "autotvm_tune",
   network |-> None, log_prefix |-> <<>>, graph_log |-> <<>>,
   kernel_log |-> <<>>, tuning_opt |-> None, tasks |-> <<>>,
   kw |-> None, i |-> 0]

(* tune_kernels' keyword defaults (lines 73-76) *)
tune_kernels_defaults ==
  [tuner |-> "xgb", n_trial |-> 1000, early_stopping |-> None,
   log_filename |-> <<"tuning.log">>]

----------------------------------------------------------------------------
(* __main__                                                                *)

(* Faulty variant: an omitted --network is not taken as "all" *)
main_networks_no_default(s, e) ==
  [s EXCEPT !.pc = "mkdir",
            !.networks = IF s.args.network = "all"
                           THEN AllNetworks
                           ELSE <<s.args.network>>]

(* lines 142-148: the list of networks to tune *)
main_networks(s, e) ==
  [s EXCEPT !.pc = "mkdir",
            !.networks = IF s.args.network = None \/ s.args.network = "all"
                           THEN AllNetworks
                           ELSE <<s.args.network>>]

(* lines 150-151: os.mkdir of the empty path raises FileNotFoundError *)
main_mkdir(s, e) ==
  IF path_exists(s.fs, s.args.logdir)
    THEN [s EXCEPT !.pc = "target"]
    ELSE IF s.args.logdir = <<>>
      THEN Raise(s, "FileNotFoundError", "os.mkdir",
                 [path |-> s.args.logdir, raised |-> FALSE])
      ELSE [s EXCEPT !.pc = "target",
                     !.fs.dirs = @ \cup {CanonPath(s.args.logdir)},
                     !.trace = Emit(s, "os.mkdir",
                                    [path |-> s.args.logdir, raised |-> FALSE])]

(* lines 155-158 *)
target_name_of(target) == IF "cpu" \in target.keys THEN "cpu" ELSE "cuda"

(* lines 153-158 *)
main_target(s, e) ==
  IF e.fail
    THEN Raise(s, "TVMError", "Target", [str |-> s.args.target, raised |-> FALSE])
    ELSE LET target == [str |-> s.args.target, keys |-> TargetKeys(s.args.target)]
         IN  [s EXCEPT !.pc = "loop",
                       !.target = target,
                       !.target_name = target_name_of(target),
                       !.trace = Emit(s, "Target",
                                      [str |-> s.args.target, raised |-> FALSE])]

(* Faulty variant: each thread count gets log files of its own *)
log_prefix_per_thread(args, target_name, network) ==
  path_join(args.logdir,
            <<"autotvm_" \o target_name \o "_" \o network \o "_" \o ToString(args.thread)>>)

(* Faulty variant: the device class is left out of the file name *)
log_prefix_without_target(args, target_name, network) ==
  path_join(args.logdir, <<"autotvm_" \o network>>)

(* line 160 *)
log_prefix_of(args, target_name, network) ==
  path_join(args.logdir, <<"autotvm_" \o target_name \o "_" \o network>>)

(* lines 159-161: the next network, or the end of the script *)
main_loop(s, e) ==
  IF s.ni < Len(s.networks)
    THEN LET network == s.networks[s.ni + 1]
             log_prefix == log_prefix_of(s.args, s.target_name, network)
         IN  [s EXCEPT !.pc = "autotvm_tune",
                       !.network = network,
                       !.log_prefix = log_prefix,
                       !.caller = "autotvm_tune",
                       !.trace = Append(s.trace,
                          Event("autotvm_tune", s.ni + 1,
                                [network |-> network, target |-> s.target,
                                 input_name |-> s.args.inputname,
                                 log_prefix |-> log_prefix,
                                 raised |-> FALSE])) ]
    ELSE [s EXCEPT !.pc = "done"]

----------------------------------------------------------------------------
(* autotvm_tuning_opt                                                      *)

(* Keyword arguments are kept as passed: a keyword the code leaves out is *)
(* not in the record's domain, and the library's default applies.         *)
NoKwargs == <<>>

(* Faulty variant: every target without a "cuda" key gets the CPU options *)
autotvm_tuning_opt_not_cuda(target, log_file) ==
  LET measure_option ==
        IF "cuda" \notin target.keys
          THEN [builder |-> NoKwargs,
                runner |-> [number |-> 1, repeat |-> 10, min_repeat_ms |-> 0,
                            enable_cpu_cache_flush |-> TRUE]]
          ELSE [builder |-> [timeout |-> 10],
                runner |-> [number |-> 20, repeat |-> 3, timeout |-> 4,
                            min_repeat_ms |-> 150]]
  IN  [log_filename |-> log_file,
       tuner |-> "xgb",
       early_stopping |-> None,
       measure_option |-> measure_option]

(* lines 46-68 *)
autotvm_tuning_opt(target, log_file) ==
  LET measure_option ==
        IF "cpu" \in target.keys
          THEN [builder |-> NoKwargs,
                runner |-> [number |-> 1, repeat |-> 10, min_repeat_ms |-> 0,
                            enable_cpu_cache_flush |-> TRUE]]
          ELSE [builder |-> [timeout |-> 10],
                runner |-> [number |-> 20, repeat |-> 3, timeout |-> 4,
                            min_repeat_ms |-> 150]]
  IN  [log_filename |-> log_file,
       tuner |-> "xgb",
       early_stopping |-> None,
       measure_option |-> measure_option]

----------------------------------------------------------------------------
(* autotvm_tune                                                            *)

(* os.path.exists(p) and, when it answers True, os.remove(p) *)
remove_if_exists(s, p) ==
  LET r == s.ni + 1
      found == path_exists(s.fs, p)
      asked == Append(s.trace, Event("os.path.exists", r,
                                     [path |-> p, raised |-> FALSE]))
  IN  IF found
        THEN [s EXCEPT !.fs = fs_remove(s.fs, p),
                       !.trace = Append(asked, Event("os.remove", r,
                                          [path |-> p, raised |-> FALSE]))]
        ELSE [s EXCEPT !.trace = asked]

(* Faulty variant: the graph log is not removed *)
autotvm_tune_remove_keeps_graph_log(s, e) ==
  LET graph_log == path_plus(s.log_prefix, "_graph.log")
      kernel_log == path_plus(s.log_prefix, "_kernel.log")
      s1 == [s EXCEPT !.graph_log = graph_log, !.kernel_log = kernel_log]
      s2 == remove_if_exists(s1, kernel_log)
  IN  [s2 EXCEPT !.pc = "get_network"]

(* Faulty variant: the kernel log is not removed *)
autotvm_tune_remove_keeps_kernel_log(s, e) ==
  LET graph_log == path_plus(s.log_prefix, "_graph.log")
      kernel_log == path_plus(s.log_prefix, "_kernel.log")
      s1 == [s EXCEPT !.graph_log = graph_log, !.kernel_log = kernel_log]
      s3 == remove_if_exists(s1, graph_log)
  IN  [s3 EXCEPT !.pc = "get_network"]

(* lines 13-18 *)
autotvm_tune_remove(s, e) ==
  LET graph_log == path_plus(s.log_prefix, "_graph.log")
      kernel_log == path_plus(s.log_prefix, "_kernel.log")
      s1 == [s EXCEPT !.graph_log = graph_log, !.kernel_log = kernel_log]
      s2 == remove_if_exists(s1, kernel_log)
      s3 == remove_if_exists(s2, graph_log)
  IN  [s3 EXCEPT !.pc = "get_network"]

(* lines 19-21 *)
autotvm_tune_get_network(s, e) ==
  LET arg == [network |-> s.network, raised |-> FALSE]
  IN  IF e.fail
        THEN Raise(s, "LibraryError", "get_network", arg)
        ELSE [s EXCEPT !.pc = IF s.network \in {"bert"}
                                THEN "tuning_opt" ELSE "convert_layout",
                       !.trace = Emit(s, "get_network", arg)]

(* lines 29-33 *)
autotvm_tune_convert_layout(s, e) ==
  LET arg == [desired_layouts |-> <<"nn.conv2d", <<"NCHW", "default">>>>,
              opt_level |-> 3, raised |-> FALSE]
  IN  IF e.fail
        THEN Raise(s, "LibraryError", "ConvertLayout", arg)
        ELSE [s EXCEPT !.pc = "tuning_opt",
                       !.trace = Emit(s, "ConvertLayout", arg)]

(* lines 22 and 35 *)
autotvm_tune_tuning_opt(s, e) ==
  LET tuning_opt == autotvm_tuning_opt(s.target, s.kernel_log)
  IN  [s EXCEPT !.pc = "extract",
                !.tuning_opt = tuning_opt,
                !.trace = Emit(s, "autotvm_tuning_opt",
                               [target |-> s.target, log_file |-> s.kernel_log,
                                result |-> tuning_opt, raised |-> FALSE])]

(* lines 25 and 38: the operators whose tasks are extracted *)
extract_ops(network) ==
  IF network \in {"bert"} THEN <<"nn.batch_matmul", "nn.dense">>
  ELSE <<"nn.conv2d">>

(* lines 23-26 and 36-40: extract the tasks and call tune_kernels with    *)
(* the options as keywords                                                 *)
autotvm_tune_extract(s, e) ==
  LET arg == [network |-> s.network, target |-> s.target,
              ops |-> extract_ops(s.network), result |-> <<>>,
              raised |-> FALSE]
  IN  IF e.fail
        THEN Raise(s, "LibraryError", "extract_from_program", arg)
        ELSE [s EXCEPT !.pc = "tune_kernels",
                       !.tasks = Tasks(e.n),
                       !.kw = s.tuning_opt @@ tune_kernels_defaults,
                       !.i = 0,
                       !.trace = Emit(s, "extract_from_program",
                                      [arg EXCEPT !.result = Tasks(e.n)])]

----------------------------------------------------------------------------
(* tune_kernels                                                            *)

RecognizedTuners == {"xgb", "xgb-rank", "ga", "random", "gridsearch"}

(* lines 81-88: the tuner class and its keyword *)
tuner_class(tuner) ==
  CASE tuner \in {"xgb", "xgb-rank"} -> <<"XGBTuner", "loss_type", "rank">>
    [] tuner = "ga" -> <<"GATuner", "pop_size", "100">>
    [] tuner = "random" -> <<"RandomTuner">>
    [] tuner = "gridsearch" -> <<"GridSearchTuner">>

(* Faulty variant: the size of the configuration space is ignored *)
tsk_trial_ignores_space(n_trial, tsk) == n_trial

(* line 93 *)
tsk_trial_of(n_trial, tsk) == Min(n_trial, len_config_space(tsk))

(* The trials a tune call that raises has logged before it raised *)
trials_before_failure(tsk_trial) == tsk_trial \div 2

log_trials(fs, log_filename, r, tsk, trials) ==
  IF trials > 0
    THEN fs_append(fs, log_filename, [run |-> r, task |-> tsk, trials |-> trials])
    ELSE fs

(* Faulty variant: a tune call that raises is skipped and the loop goes on *)
tune_kernels_iter_skips_failure(s, e) ==
  LET tsk == Reverse(s.tasks)[s.i + 1]
      prefix == <<s.i + 1, Len(s.tasks)>>
  IN  IF s.kw.tuner \notin RecognizedTuners
        THEN Raise(s, "ValueError", "raise",
                   [message |-> "Invalid tuner: " \o s.kw.tuner, raised |-> FALSE])
        ELSE
          LET s1 == [s EXCEPT !.trace = Emit(s, "Tuner",
                        [cls |-> tuner_class(s.kw.tuner), task |-> tsk,
                         raised |-> FALSE])]
              tsk_trial == tsk_trial_of(s.kw.n_trial, tsk)
              arg == [task |-> tsk, n_trial |-> tsk_trial,
                      early_stopping |-> s.kw.early_stopping,
                      measure_option |-> s.kw.measure_option,
                      progress_bar |-> <<tsk_trial, prefix>>,
                      log_filename |-> s.kw.log_filename, raised |-> FALSE]
          IN  IF e.fail
                THEN [s1 EXCEPT !.i = s.i + 1,
                                !.fs = log_trials(s.fs, s.kw.log_filename, s.ni + 1,
                                         tsk, trials_before_failure(tsk_trial)),
                                !.trace = Emit(s1, "tune", [arg EXCEPT !.raised = TRUE])]
                ELSE [s1 EXCEPT !.i = s.i + 1,
                                !.fs = log_trials(s.fs, s.kw.log_filename,
                                                  s.ni + 1, tsk, tsk_trial),
                                !.trace = Emit(s1, "tune", arg)]

(* lines 78-102: one iteration of the loop over reversed(tasks) *)
tune_kernels_iter(s, e) ==
  LET tsk == Reverse(s.tasks)[s.i + 1]
      prefix == <<s.i + 1, Len(s.tasks)>>
  IN  IF s.kw.tuner \notin RecognizedTuners
        THEN Raise(s, "ValueError", "raise",
                   [message |-> "Invalid tuner: " \o s.kw.tuner, raised |-> FALSE])
        ELSE
          LET s1 == [s EXCEPT !.trace = Emit(s, "Tuner",
                        [cls |-> tuner_class(s.kw.tuner), task |-> tsk,
                         raised |-> FALSE])]
              tsk_trial == tsk_trial_of(s.kw.n_trial, tsk)
              arg == [task |-> tsk, n_trial |-> tsk_trial,
                      early_stopping |-> s.kw.early_stopping,
                      measure_option |-> s.kw.measure_option,
                      progress_bar |-> <<tsk_trial, prefix>>,
                      log_filename |-> s.kw.log_filename, raised |-> FALSE]
          IN  IF e.fail
                THEN [Raise(s1, "LibraryError", "tune", arg)
                        EXCEPT !.fs = log_trials(s.fs, s.kw.log_filename, s.ni + 1,
                                        tsk, trials_before_failure(tsk_trial))]
                ELSE [s1 EXCEPT !.i = s.i + 1,
                                !.fs = log_trials(s.fs, s.kw.log_filename,
                                                  s.ni + 1, tsk, tsk_trial),
                                !.trace = Emit(s1, "tune", arg)]

(* Faulty variant: the graph pass is not limited to CPU targets *)
runs_graph_pass_any_target(network, target) ==
  network \notin {"bert"}

(* line 41: whether autotvm_tune runs the graph pass *)
runs_graph_pass(network, target) ==
  network \notin {"bert"} /\ "cpu" \in target.keys

(* The loop of line 78 is exhausted: tune_kernels returns (lines 26, 40),  *)
(* and autotvm_tune goes on to line 41 or returns to line 159.             *)
tune_kernels_return(s, e) ==
  IF s.caller # "autotvm_tune"
    THEN [s EXCEPT !.pc = "returned"]
    ELSE IF runs_graph_pass(s.network, s.target)
      THEN [s EXCEPT !.pc = "tune_graph"]
      ELSE [s EXCEPT !.pc = "loop", !.ni = s.ni + 1]

----------------------------------------------------------------------------
(* tune_graph                                                              *)

(* lines 107-111: the executor is built from the kernel log's records *)
tune_graph_executor(s, e) ==
  LET arg == [cls |-> "DPTuner", graph |-> s.network,
              input_shapes |-> <<s.args.inputname, s.network>>,
              records |-> s.kernel_log,
              records_read |-> fs_read(s.fs, s.kernel_log),
              target_op |-> <<"nn.conv2d">>, target |-> s.target,
              raised |-> FALSE]
  IN  IF e.fail
        THEN Raise(s, "LibraryError", "GraphTuner", arg)
        ELSE [s EXCEPT !.pc = "benchmark", !.trace = Emit(s, "GraphTuner", arg)]

(* line 112 *)
tune_graph_benchmark(s, e) ==
  LET arg == [min_exec_num |-> 2000, raised |-> FALSE]
  IN  IF e.fail
        THEN Raise(s, "LibraryError", "benchmark_layout_transform", arg)
        ELSE [s EXCEPT !.pc = "graph_run",
                       !.trace = Emit(s, "benchmark_layout_transform", arg)]

(* line 113 *)
tune_graph_run(s, e) ==
  LET arg == [raised |-> FALSE]
  IN  IF e.fail
        THEN Raise(s, "LibraryError", "run", arg)
        ELSE [s EXCEPT !.pc = "graph_write", !.trace = Emit(s, "run", arg)]

(* line 114, and the return to line 159 *)
tune_graph_write(s, e) ==
  LET arg == [path |-> s.graph_log, raised |-> FALSE]
  IN  IF e.fail
        THEN Raise(s, "LibraryError", "write_opt_sch2record_file", arg)
        ELSE [s EXCEPT !.pc = "loop", !.ni = s.ni + 1,
                       !.fs = fs_write(s.fs, s.graph_log,
                                       [run |-> s.ni + 1, task |-> 0, trials |-> 0]),
                       !.trace = Emit(s, "write_opt_sch2record_file", arg)]

----------------------------------------------------------------------------
(* The script as a state machine                                           *)

(* The statement at s.pc, executed with the library answering e *)
Step(s, e) ==
  CASE s.pc = "parse" -> main_networks(s, e)
    [] s.pc = "mkdir" -> main_mkdir(s, e)
    [] s.pc = "target" -> main_target(s, e)
    [] s.pc = "loop" -> main_loop(s, e)
    [] s.pc = "autotvm_tune" -> autotvm_tune_remove(s, e)
    [] s.pc = "get_network" -> autotvm_tune_get_network(s, e)
    [] s.pc = "convert_layout" -> autotvm_tune_convert_layout(s, e)
    [] s.pc = "tuning_opt" -> autotvm_tune_tuning_opt(s, e)
    [] s.pc = "extract" -> autotvm_tune_extract(s, e)
    [] s.pc = "tune_kernels" ->
         IF s.i < Len(s.tasks) THEN tune_kernels_iter(s, e)
         ELSE tune_kernels_return(s, e)
    [] s.pc = "tune_graph" -> tune_graph_executor(s, e)
    [] s.pc = "benchmark" -> tune_graph_benchmark(s, e)
    [] s.pc = "graph_run" -> tune_graph_run(s, e)
    [] s.pc = "graph_write" -> tune_graph_write(s, e)
    [] OTHER -> s

(* Both executions take their next statement, with the same answer *)
Both(e) ==
  /\ run' = Step(run, e)
  /\ twin' = Step(twin, e)

MainNetworks == run.pc = "parse" /\ Both(NoChoice)
MainMkdir == run.pc = "mkdir" /\ Both(NoChoice)
MainTarget == run.pc = "target" /\ \E e \in MayFail : Both(e)
MainLoop == run.pc = "loop" /\ Both(NoChoice)
AutotvmTuneRemove == run.pc = "autotvm_tune" /\ Both(NoChoice)
AutotvmTuneGetNetwork == run.pc = "get_network" /\ \E e \in MayFail : Both(e)
AutotvmTuneConvertLayout == run.pc = "convert_layout" /\ \E e \in MayFail : Both(e)
AutotvmTuneTuningOpt == run.pc = "tuning_opt" /\ Both(NoChoice)
AutotvmTuneExtract == run.pc = "extract" /\ \E e \in MayFailN : Both(e)
TuneKernelsIter ==
  /\ run.pc = "tune_kernels" /\ run.i < Len(run.tasks)
  /\ \E e \in MayFail : Both(e)
TuneKernelsReturn ==
  /\ run.pc = "tune_kernels" /\ run.i >= Len(run.tasks)
  /\ Both(NoChoice)
TuneGraphExecutor == run.pc = "tune_graph" /\ \E e \in MayFail : Both(e)
TuneGraphBenchmark == run.pc = "benchmark" /\ \E e \in MayFail : Both(e)
TuneGraphRun == run.pc = "graph_run" /\ \E e \in MayFail : Both(e)
TuneGraphWrite == run.pc = "graph_write" /\ \E e \in MayFail : Both(e)

(* The log files an earlier execution may have left in directory d *)
LogKinds == {"kernel", "graph"}

StalePath(d, target_name, network, kind) ==
  CanonPath(d \o <<Sep, "autotvm_" \o target_name \o "_" \o network
                        \o "_" \o kind \o ".log">>)

StaleFiles(d, kinds) ==
  {StalePath(d, tn, AllNetworks[k], kind) :
     tn \in {"cpu", "cuda"}, k \in 1..Len(AllNetworks), kind \in kinds}

(* The file system before the script starts: the log directory is missing, *)
(* or it is there with the logs of earlier executions in it.               *)
InitialFs(logdir) ==
  {[dirs |-> {}, files |-> <<>>]} \cup
  IF logdir = <<>> THEN {}
  ELSE {[dirs |-> {CanonPath(logdir)},
         files |-> [q \in StaleFiles(logdir, kinds) |-> <<StaleRec>>]] :
          kinds \in {{}, LogKinds}}

ArgSpace ==
  [network : NetworkChoices \cup {None}, target : TargetStrings,
   logdir : LogDirs, thread : {DefaultThread}, inputname : InputNames]

Init ==
  \E args \in ArgSpace :
    \E fs \in InitialFs(args.logdir) :
      \E t \in OtherThreads :
        /\ run = Start(args, fs)
        /\ twin = Start([args EXCEPT !.thread = t], fs)

Next ==
  \/ MainNetworks
  \/ MainMkdir
  \/ MainTarget
  \/ MainLoop
  \/ AutotvmTuneRemove
  \/ AutotvmTuneGetNetwork
  \/ AutotvmTuneConvertLayout
  \/ AutotvmTuneTuningOpt
  \/ AutotvmTuneExtract
  \/ TuneKernelsIter
  \/ TuneKernelsReturn
  \/ TuneGraphExecutor
  \/ TuneGraphBenchmark
  \/ TuneGraphRun
  \/ TuneGraphWrite

Spec == Init /\ [][Next]_vars

----------------------------------------------------------------------------
(* tune_kernels called on its own                                          *)

TunerNames == RecognizedTuners \cup {"xgboost", ""}

TargetObjects == {[str |-> t, keys |-> TargetKeys(t)] : t \in TargetStrings}

MeasureOptions ==
  {autotvm_tuning_opt(t, <<"any.log">>).measure_option : t \in TargetObjects}

(* The keyword arguments of a call: any of tuner, n_trial and log_filename *)
(* may be left to its default; or the call passes autotvm_tuning_opt's     *)
(* result as keywords, as autotvm_tune does.                               *)
DirectKwargs ==
  {[measure_option |-> mo, early_stopping |-> None] @@ tu @@ nt @@ lf :
     mo \in MeasureOptions,
     tu \in {NoKwargs} \cup {[tuner |-> t] : t \in TunerNames},
     nt \in {NoKwargs} \cup {[n_trial |-> n] : n \in {4, 5000}},
     lf \in {NoKwargs, [log_filename |-> <<"logs", Sep, "my.log">>]}}
  \cup {autotvm_tuning_opt(t, <<"logs", Sep, "opt.log">>) : t \in TargetObjects}

DirectFs ==
  {[dirs |-> {<<"logs">>}, files |-> <<>>],
   [dirs |-> {<<"logs">>},
    files |-> [q \in {<<"tuning.log">>, <<"logs", Sep, "my.log">>,
                      <<"logs", Sep, "opt.log">>} |-> <<StaleRec>>]]}

(* The state at line 78 of a call tune_kernels(tasks, **given) *)
DirectCall(tasks, given, fs) ==
  [Start([network |-> None, target |-> DefaultTarget, logdir |-> <<"logs">>,
          thread |-> DefaultThread, inputname |-> "data"], fs)
     EXCEPT !.pc = "tune_kernels", !.caller = "direct", !.tasks = tasks,
            !.tuning_opt = given, !.kw = given @@ tune_kernels_defaults]

InitTuneKernels ==
  \E n \in 0..MaxTasks : \E given \in DirectKwargs : \E fs \in DirectFs :
    /\ run = DirectCall(Tasks(n), given, fs)
    /\ twin = run

NextTuneKernels ==
  \/ TuneKernelsIter
  \/ TuneKernelsReturn

SpecTuneKernels == InitTuneKernels /\ [][NextTuneKernels]_vars

----------------------------------------------------------------------------
(* Properties                                                              *)

Trace == run.trace

Ev(j) == run.trace[j]

(* The positions of autotvm_tune after lines 13-18 *)
AfterRemoval ==
  {"get_network", "convert_layout", "tuning_opt", "extract", "tune_kernels",
   "tune_graph", "benchmark", "graph_run", "graph_write"}

AllFrom(recs, r) == \A m \in DOMAIN recs : recs[m].run = r

(* C1: in every autotvm_tune run the existence checks and removals of the  *)
(* two logs come before the network is loaded, before any tuning call and  *)
(* before the graph tuner reads the kernel log; once they are done neither *)
(* log holds a record of an earlier run; and every record the graph tuner  *)
(* reads from the kernel log was written by the run that reads it.         *)
C1_LogsDeletedBeforeUse ==
  /\ \A j \in DOMAIN Trace : \A k \in DOMAIN Trace :
       ( /\ Ev(j).op \in {"os.path.exists", "os.remove"}
         /\ Ev(k).op \in {"get_network", "Tuner", "tune", "GraphTuner"}
         /\ Ev(j).run = Ev(k).run ) => j < k
  /\ (run.caller = "autotvm_tune" /\ run.pc \in AfterRemoval) =>
       /\ AllFrom(fs_read(run.fs, run.kernel_log), run.ni + 1)
       /\ AllFrom(fs_read(run.fs, run.graph_log), run.ni + 1)
  /\ \A j \in DOMAIN Trace :
       Ev(j).op = "GraphTuner" => AllFrom(Ev(j).arg.records_read, Ev(j).run)

(* A stale kernel log was removed and the graph tuner then read records *)
C1_Witness ==
  \E j \in DOMAIN Trace : \E k \in DOMAIN Trace :
    /\ Ev(j).op = "os.remove" /\ Ev(j).arg.path = run.kernel_log
    /\ Ev(k).op = "GraphTuner" /\ ~Ev(k).arg.raised
    /\ Ev(j).run = Ev(k).run
    /\ Len(Ev(k).arg.records_read) > 1


(* The device-class name of the target given on the command line *)
DeviceClass == IF "cpu" \in TargetKeys(run.args.target) THEN "cpu" ELSE "cuda"

(* <logdir>/autotvm_<target>_<network>_<kind>.log, as the file it names *)
NamedLog(logdir, target_name, network, kind) ==
  CanonPath(logdir \o <<Sep>> \o
            <<"autotvm_" \o target_name \o "_" \o network \o "_" \o kind \o ".log">>)

ExpectedLog(r, kind) == NamedLog(run.args.logdir, DeviceClass, run.networks[r], kind)

(* The first path autotvm_tune run r asked the file system about: the     *)
(* kernel log it deletes at its start                                      *)
DeletedKernelLog(r) ==
  Ev(CHOOSE j \in DOMAIN Trace :
       /\ Ev(j).op = "os.path.exists" /\ Ev(j).run = r
       /\ \A k \in 1..(j - 1) : ~(Ev(k).op = "os.path.exists" /\ Ev(k).run = r)).arg.path

(* C2: every path a run checks, removes, logs to, reads or writes is the  *)
(* file <logdir>/autotvm_<device class>_<network>_kernel.log or            *)
(* ..._graph.log of the run's network; the kernel log given to the tuning  *)
(* options, to every tune call and to the graph tuner is the very path     *)
(* checked for deletion at the start of the run; and the log paths of      *)
(* distinct (device class, network) pairs are all different.               *)
C2_LogPaths ==
  /\ \A j \in DOMAIN Trace :
       LET r == Ev(j).run
           a == Ev(j).arg
       IN  /\ Ev(j).op \in {"os.path.exists", "os.remove"} =>
                CanonPath(a.path) \in {ExpectedLog(r, "kernel"), ExpectedLog(r, "graph")}
           /\ Ev(j).op = "os.remove" /\ j > 1 =>
                Ev(j - 1).op = "os.path.exists" /\ Ev(j - 1).arg.path = a.path
           /\ Ev(j).op = "autotvm_tuning_opt" =>
                /\ a.log_file = DeletedKernelLog(r)
                /\ a.result.log_filename = DeletedKernelLog(r)
                /\ CanonPath(a.log_file) = ExpectedLog(r, "kernel")
           /\ Ev(j).op = "tune" =>
                /\ a.log_filename = DeletedKernelLog(r)
                /\ CanonPath(a.log_filename) = ExpectedLog(r, "kernel")
           /\ Ev(j).op = "GraphTuner" =>
                /\ a.records = DeletedKernelLog(r)
                /\ CanonPath(a.records) = ExpectedLog(r, "kernel")
           /\ Ev(j).op = "write_opt_sch2record_file" =>
                CanonPath(a.path) = ExpectedLog(r, "graph")
  /\ \A r \in 1..Len(run.networks) :
       (\E j \in DOMAIN Trace : Ev(j).op = "os.path.exists" /\ Ev(j).run = r) =>
          CanonPath(DeletedKernelLog(r)) = ExpectedLog(r, "kernel")
  /\ Cardinality({CanonPath(path_plus(log_prefix_of(run.args, tn, AllNetworks[k]), sfx)) :
                    tn \in {"cpu", "cuda"}, k \in 1..Len(AllNetworks),
                    sfx \in {"_kernel.log", "_graph.log"}})
       = 4 * Len(AllNetworks)

(* A CPU run under the default log directory (which ends in a separator)  *)
(* has tuned a task and written its graph log                              *)
C2_Witness ==
  /\ run.args.logdir = <<"tuning_logs", Sep>>
  /\ \E j \in DOMAIN Trace : \E k \in DOMAIN Trace :
       /\ Ev(j).op = "tune" /\ Ev(k).op = "write_opt_sch2record_file"
       /\ ~Ev(k).arg.raised /\ Ev(j).run = Ev(k).run

(* The steps of a run in the order the claim gives them *)
Rank(op) ==
  CASE op = "autotvm_tuning_opt" -> 1
    [] op = "extract_from_program" -> 2
    [] op \in {"Tuner", "tune"} -> 3
    [] op = "GraphTuner" -> 4
    [] op = "benchmark_layout_transform" -> 5
    [] op = "run" -> 6
    [] op = "write_opt_sch2record_file" -> 7
    [] OTHER -> 0

(* The tasks run r has tuned to the end before position j, in order *)
Tuned(r, j) ==
  LET Is(k) == Ev(k).op = "tune" /\ Ev(k).run = r /\ ~Ev(k).arg.raised
  IN  [m \in 1..Cardinality({k \in 1..(j - 1) : Is(k)}) |->
         Ev(CHOOSE k \in 1..(j - 1) :
              Is(k) /\ Cardinality({q \in 1..k : Is(q)}) = m).arg.task]

Extracted(r) ==
  Ev(CHOOSE j \in DOMAIN Trace :
       Ev(j).op = "extract_from_program" /\ Ev(j).run = r).arg.result

(* C4: within a run the steps come in the order options, extraction,      *)
(* kernel tuning, graph tuner, benchmark_layout_transform, run, write of   *)
(* the graph log, each of the others at most once; the graph pass starts   *)
(* only when every extracted task has been tuned to the end; graph steps   *)
(* occur only for a network other than bert on a target with key "cpu";    *)
(* and a finished run of such a network on such a target has done all      *)
(* steps of the graph pass.                                                *)
C4_StepOrder ==
  /\ \A j \in DOMAIN Trace : \A k \in DOMAIN Trace :
       (j < k /\ Ev(j).run = Ev(k).run /\ Rank(Ev(j).op) > 0 /\ Rank(Ev(k).op) > 0) =>
          /\ Rank(Ev(j).op) <= Rank(Ev(k).op)
          /\ (Rank(Ev(j).op) = Rank(Ev(k).op) => Rank(Ev(j).op) = 3)
  /\ \A j \in DOMAIN Trace :
       Rank(Ev(j).op) >= 4 =>
         /\ run.networks[Ev(j).run] # "bert"
         /\ "cpu" \in TargetKeys(run.args.target)
         /\ Len(Tuned(Ev(j).run, j)) = Len(Extracted(Ev(j).run))
  /\ \A r \in 1..run.ni :
       /\ Len(Tuned(r, Len(Trace) + 1)) = Len(Extracted(r))
       /\ (run.networks[r] # "bert" /\ "cpu" \in TargetKeys(run.args.target)) =>
            \A n \in 4..7 : \E j \in DOMAIN Trace :
               Ev(j).run = r /\ Rank(Ev(j).op) = n /\ ~Ev(j).arg.raised

(* A run with two tasks has finished its graph pass, and a bert run on    *)
(* the same CPU target has finished without one                            *)
C4_Witness ==
  /\ run.pc = "done"
  /\ "cpu" \in TargetKeys(run.args.target)
  /\ Len(run.networks) > 1
  /\ Len(Extracted(1)) = MaxTasks
  /\ \E j \in DOMAIN Trace : Ev(j).run = 1 /\ Ev(j).op = "write_opt_sch2record_file"

(* C5: the options autotvm_tuning_opt returns have tuner "xgb", no early  *)
(* stopping and the log file passed in; for a target with key "cpu" the    *)
(* runner is LocalRunner(number=1, repeat=10, min_repeat_ms=0,             *)
(* enable_cpu_cache_flush=True) and the builder is given no timeout; for   *)
(* any other target the runner is LocalRunner(number=20, repeat=3,         *)
(* timeout=4, min_repeat_ms=150) and the builder's timeout is 10.          *)
C5_TuningOptions ==
  \A j \in DOMAIN Trace :
    Ev(j).op = "autotvm_tuning_opt" =>
      LET o == Ev(j).arg.result
          mo == o.measure_option
      IN  /\ o.tuner = "xgb"
          /\ o.early_stopping = None
          /\ o.log_filename = Ev(j).arg.log_file
          /\ DOMAIN o = {"log_filename", "tuner", "early_stopping", "measure_option"}
          /\ IF "cpu" \in TargetKeys(run.args.target)
               THEN /\ mo.runner = [number |-> 1, repeat |-> 10, min_repeat_ms |-> 0,
                                    enable_cpu_cache_flush |-> TRUE]
                    /\ "timeout" \notin DOMAIN mo.builder
               ELSE /\ mo.runner = [number |-> 20, repeat |-> 3, timeout |-> 4,
                                    min_repeat_ms |-> 150]
                    /\ "timeout" \in DOMAIN mo.builder
                    /\ mo.builder.timeout = 10

(* Options have been built for two networks on a target that is neither   *)
(* a CPU nor CUDA                                                          *)
C5_Witness ==
  /\ run.args.target = "opencl"
  /\ \E j \in DOMAIN Trace : \E k \in DOMAIN Trace :
       /\ Ev(j).op = "autotvm_tuning_opt" /\ Ev(k).op = "autotvm_tuning_opt"
       /\ Ev(j).run # Ev(k).run


IsPrefix(a, b) == Len(a) <= Len(b) /\ \A m \in DOMAIN a : a[m] = b[m]

Raised(tr) == {j \in DOMAIN tr : tr[j].arg.raised}

(* C6: a step in which a call raises ends the execution: it leaves the    *)
(* script crashed with the error; the raising call is the last thing in    *)
(* the trace and the only call that raised there (it was made once, and    *)
(* nothing was started after it); the step deletes no file and changes no  *)
(* record already in a file; and no step is ever taken after a crash.      *)
C6_FailureStopsRun ==
  [][ /\ run.pc # "crashed"
      /\ Raised(run.trace) = {}
      /\ Raised(run'.trace) # {} =>
           /\ run'.pc = "crashed"
           /\ run'.err # None
           /\ run'.ni = run.ni
           /\ IsPrefix(run.trace, run'.trace)
           /\ Raised(run'.trace) = {Len(run'.trace)}
           /\ \A q \in DOMAIN run.fs.files :
                /\ q \in DOMAIN run'.fs.files
                /\ IsPrefix(run.fs.files[q], run'.fs.files[q])
      /\ run'.pc = "crashed" => Raised(run'.trace) # {}
    ]_vars

(* The second network of an "all" run crashed in a tune call after the    *)
(* first network's logs and one task of its own were written               *)
C6_Witness ==
  /\ run.pc = "crashed"
  /\ run.err = "LibraryError"
  /\ run.ni = 1
  /\ Trace[Len(Trace)].op = "tune"
  /\ Len(Tuned(2, Len(Trace))) = 1
  /\ Len(fs_read(run.fs, ExpectedLog(1, "kernel"))) > 0

Started ==
  LET Is(k) == Ev(k).op = "autotvm_tune"
  IN  [m \in 1..Cardinality({k \in DOMAIN Trace : Is(k)}) |->
         Ev(CHOOSE k \in DOMAIN Trace :
              Is(k) /\ Cardinality({q \in 1..k : Is(q)}) = m).arg.network]

ExpectedNetworks ==
  IF run.args.network = None \/ run.args.network = "all"
    THEN <<"resnet-50", "mobilenet_v2", "bert">>
    ELSE <<run.args.network>>

OwnLogs ==
  {NamedLog(run.args.logdir, DeviceClass, ExpectedNetworks[r], kind) :
     r \in DOMAIN ExpectedNetworks, kind \in LogKinds}

(* C8: the networks tuned so far are the first ones of resnet-50,         *)
(* mobilenet_v2, bert (flag omitted or "all") or of the one network        *)
(* named, and at the end of an execution that did not fail they are all of *)
(* them, once each; everything run r does comes after everything run r-1   *)
(* does; and a log file that is not a log of these networks is never       *)
(* deleted, changed or created.                                            *)
C8_NetworksInOrder ==
  /\ IsPrefix(Started, ExpectedNetworks)
  /\ run.pc = "done" => Started = ExpectedNetworks /\ run.ni = Len(ExpectedNetworks)
  /\ \A j \in DOMAIN Trace : \A k \in DOMAIN Trace :
       j < k => Ev(j).run <= Ev(k).run
  /\ \A j \in DOMAIN Trace :
       Ev(j).run > 0 => \E k \in 1..j : Ev(k).op = "autotvm_tune" /\ Ev(k).run = Ev(j).run
  /\ \A j \in DOMAIN Trace :
       Ev(j).op = "autotvm_tune" => run.networks[Ev(j).run] = Ev(j).arg.network
  /\ \A q \in (DOMAIN run.fs0.files) \ OwnLogs :
       q \in DOMAIN run.fs.files /\ run.fs.files[q] = run.fs0.files[q]
  /\ (DOMAIN run.fs.files) \ (DOMAIN run.fs0.files) \subseteq OwnLogs

(* An execution without --network has tuned the three networks *)
C8_Witness ==
  /\ run.pc = "done"
  /\ run.args.network = None
  /\ Len(Started) = 3
  /\ DOMAIN run.fs0.files # {}

(* The keyword arguments the call was made with *)
Given == run.tuning_opt

GivenOr(key, default) == IF key \in DOMAIN Given THEN Given[key] ELSE default

(* C9: with a recognized tuner name, the tasks tuned so far are the last  *)
(* tasks of the list, in reverse order, and when tune_kernels returns they *)
(* are all of them, once each; every tune call follows the creation of a   *)
(* tuner for its task; its trial budget is the smaller of n_trial and the  *)
(* size of the task's configuration space; every call logs to the given    *)
(* log_filename, which then holds what it held before followed by one      *)
(* entry per tuned task with that budget; and n_trial is 1000 when the     *)
(* keywords are those built by autotvm_tuning_opt.                         *)
C9_TuneKernels ==
  GivenOr("tuner", "xgb") \in {"xgb", "xgb-rank", "ga", "random", "gridsearch"} =>
    LET tuned == Tuned(1, Len(Trace) + 1)
        n_trial == GivenOr("n_trial", 1000)
        log_filename == GivenOr("log_filename", <<"tuning.log">>)
        Budget(t) == IF n_trial <= len_config_space(t)
                       THEN n_trial ELSE len_config_space(t)
    IN  /\ run.err # "ValueError"
        /\ \A m \in DOMAIN tuned : tuned[m] = run.tasks[Len(run.tasks) + 1 - m]
        /\ Len(tuned) <= Len(run.tasks)
        /\ run.pc = "returned" => Len(tuned) = Len(run.tasks)
        /\ \A j \in DOMAIN Trace :
             Ev(j).op = "tune" =>
               /\ j > 1 /\ Ev(j - 1).op = "Tuner" /\ Ev(j - 1).arg.task = Ev(j).arg.task
               /\ Ev(j).arg.n_trial = Budget(Ev(j).arg.task)
               /\ Ev(j).arg.n_trial <= n_trial
               /\ Ev(j).arg.n_trial <= len_config_space(Ev(j).arg.task)
               /\ Ev(j).arg.log_filename = log_filename
        /\ \A j \in DOMAIN Trace :
             Ev(j).op = "Tuner" => j < Len(Trace) /\ Ev(j + 1).op = "tune"
        /\ run.err = None =>
             fs_read(run.fs, log_filename) =
               fs_read(run.fs0, log_filename) \o
               [m \in DOMAIN tuned |-> [run |-> 1, task |-> tuned[m],
                                        trials |-> Budget(tuned[m])]]
        /\ (\E t \in TargetObjects : \E f \in {log_filename} :
              Given = autotvm_tuning_opt(t, f)) => run.kw.n_trial = 1000

(* A call with tuner "ga" and the default n_trial, which lies between    *)
(* the sizes of the two tasks' configuration spaces, has returned after    *)
(* tuning MaxTasks tasks, appending to a log that already held a record    *)
C9_Witness ==
  /\ run.pc = "returned"
  /\ run.kw.tuner = "ga"
  /\ run.kw.n_trial = 1000
  /\ Len(run.tasks) = MaxTasks
  /\ Len(fs_read(run.fs0, run.kw.log_filename)) > 0

(* C3: a call with an unrecognized tuner name ends with ValueError, and   *)
(* has created no tuner, run no tune call and written nothing.             *)
C3_InvalidTunerRaises ==
  (run.kw.tuner \notin RecognizedTuners /\ run.pc \in {"returned", "crashed"}) =>
    /\ run.pc = "crashed"
    /\ run.err = "ValueError"
    /\ \A j \in DOMAIN Trace : Ev(j).op \notin {"Tuner", "tune"}
    /\ run.fs = run.fs0

(* C10: after every autotvm_tune run that has returned, the graph log of  *)
(* its (target, network) pair exists exactly if the network is not bert    *)
(* and the target has key "cpu", and then all it holds was written by      *)
(* that run.                                                               *)
C10_GraphLogAfterRun ==
  \A r \in 1..run.ni :
    LET q == ExpectedLog(r, "graph")
    IN  /\ q \in DOMAIN run.fs.files <=>
             (run.networks[r] # "bert" /\ "cpu" \in TargetKeys(run.args.target))
        /\ q \in DOMAIN run.fs.files => AllFrom(run.fs.files[q], r)

(* A bert run has returned after deleting the graph log an earlier        *)
(* execution left                                                          *)
C10_Witness ==
  \E r \in 1..run.ni :
    /\ run.networks[r] = "bert"
    /\ ExpectedLog(r, "graph") \in DOMAIN run.fs0.files
    /\ \E j \in DOMAIN Trace :
         /\ Ev(j).op = "os.remove" /\ Ev(j).run = r
         /\ CanonPath(Ev(j).arg.path) = ExpectedLog(r, "graph")

====
